---- MODULE Spec2Model ----
(***************************************************************************)
(* The Pipeline derive of pipeline_derive: the attribute parser            *)
(* (attributes.rs), the attribute-aware generator (codegen.rs ->           *)
(* pipeline.rs), the attribute-unaware macro (lib.rs), and the execution   *)
(* of the generated process3 / process4 methods on a struct instance.      *)
(*                                                                         *)
(* Option<X> is modelled as a sequence: <<>> is None, <<x>> is Some(x).    *)
(***************************************************************************)
EXTENDS Integers, Sequences, FiniteSets, TLC

VARIABLES
    impl,      \* which derive runs: "lib" (lib.rs) or "codegen" (codegen.rs)
    input,     \* the DeriveInput handed to the macro
    attrs,     \* codegen.rs: the Result of attributes::parse_attributes
    outcome,   \* what the macro returned: methods, an error, or a panic
    pc,        \* position: macro invocation, then the generated method body
    call,      \* the method call: n (3 or 4), the field value, the steps
    cur,       \* the Option flowing through the and_then chain
    k,         \* index of the next and_then of the chain
    invoked,   \* log of the step closures invoked: [step, arg, result]
    stdout,    \* lines printed by the generated method
    ret        \* the method's return value (an Option), once returned

vars == <<impl, input, attrs, outcome, pc, call, cur, k, invoked, stdout, ret>>

(***************************** bounds **************************************)
MaxPairs == 2
MaxFields == 2
MaxGenericArgs == 2
MaxDelta == 1

ExampleValue == 7
ExampleTimeout == 1000

(***************************** syntax trees ********************************)
None == <<>>
Some(x) == <<x>>

RECURSIVE SeqsUpTo(_, _)
SeqsUpTo(S, n) ==
    IF n = 0 THEN {<<>>}
    ELSE LET shorter == SeqsUpTo(S, n - 1)
         IN  shorter \cup {Append(s, x) : s \in {t \in shorter : Len(t) = n - 1}, x \in S}

\* syn::Expr, as far as the parser distinguishes expressions.  LitInt carries
\* its digits as n + over * 2^64: over marks a literal beyond u64::MAX.
LitBool(b) == [kind |-> "LitBool", b |-> b, n |-> 0, over |-> FALSE]
LitInt(n, over) == [kind |-> "LitInt", b |-> FALSE, n |-> n, over |-> over]
NonLit == [kind |-> "NonLit", b |-> FALSE, n |-> 0, over |-> FALSE]

\* PipelineAttributePair: `key` or `key = value`
Pair(key, value) == [key |-> key, value |-> value]

\* integer literals that fit u64: zero and the documented `timeout = 1000`
IntLits == {0, ExampleTimeout}

SkipValues == {None, Some(LitBool(TRUE)), Some(LitBool(FALSE)),
               Some(LitInt(0, FALSE)), Some(NonLit)}
TimeoutValues == {None, Some(LitInt(0, TRUE)), Some(LitBool(TRUE)), Some(NonLit)}
                 \cup {Some(LitInt(n, FALSE)) : n \in IntLits}
OtherValues == {None, Some(LitInt(1, FALSE))}

PairSet == {Pair("skip", v) : v \in SkipValues}
           \cup {Pair("timeout", v) : v \in TimeoutValues}
           \cup {Pair("foo", v) : v \in OtherValues}

PairLists == SeqsUpTo(PairSet, MaxPairs)
ShortLists == {<<>>} \cup {<<p>> : p \in PairSet}

\* syn::Attribute: its path and, for #[pipeline(...)], the pairs in the list
Attribute(path, pairs) == [path |-> path, pairs |-> pairs]
DocAttr == Attribute("doc", <<>>)

AttrLists == {<<>>, <<DocAttr>>}
             \cup {<<Attribute("pipeline", l)>> : l \in PairLists}
             \cup {<<DocAttr, Attribute("pipeline", l)>> : l \in ShortLists}
             \cup {<<Attribute("pipeline", l1), Attribute("pipeline", l2)>> :
                       l1 \in ShortLists, l2 \in ShortLists}

\* syn::Type of a field
TypePath(ident, arguments, args) ==
    [kind |-> "Path", ident |-> ident, arguments |-> arguments, args |-> args]
TypeOther == [kind |-> "Other", ident |-> "", arguments |-> "None", args |-> <<>>]

\* syn::GenericArgument: a type, or another kind of argument
GenericArgs == SeqsUpTo({"Type", "Lifetime", "Const"}, MaxGenericArgs)

Types == {TypeOther, TypePath("i32", "None", <<>>),
          TypePath("Option", "None", <<>>),
          TypePath("Option", "Parenthesized", <<>>)}
         \cup {TypePath("Option", "AngleBracketed", a) : a \in GenericArgs}

OptionT == TypePath("Option", "AngleBracketed", <<"Type">>)

\* syn::Data with syn::Fields
Data(kind, fields, tys) == [kind |-> kind, fields |-> fields, tys |-> tys]

FieldLists == {<<>>} \cup {<<t>> : t \in Types}
              \cup {s \in SeqsUpTo({OptionT, TypeOther}, MaxFields) : Len(s) >= 2}

Datas == {Data("Struct", "Named", s) : s \in FieldLists}
         \cup {Data("Struct", "Unnamed", s) : s \in SeqsUpTo({OptionT}, MaxFields)}
         \cup {Data("Struct", "Unit", <<>>), Data("Enum", "Unit", <<>>),
               Data("Union", "Unit", <<>>)}

DeriveInput(as, data) == [attrs |-> as, data |-> data]

\* the macro's locals once it has returned
NoInput == DeriveInput(<<>>, Data("Dropped", "Unit", <<>>))

(***************************** attributes.rs ******************************)
\* #[derive(Default)] PipelineAttributes
Default == [skip |-> FALSE, timeout |-> None, others |-> <<>>]

\* syn::Result<PipelineAttributes>
AttrOk(a) == [ok |-> TRUE, val |-> a, msg |-> "", span |-> ""]
AttrErr(msg, span) == [ok |-> FALSE, val |-> Default, msg |-> msg, span |-> span]

MsgSkip == "Expected boolean literal for 'skip'"
MsgTimeoutLit == "Expected integer literal for 'timeout'"
MsgTimeoutMissing == "'timeout' attribute requires an integer value, e.g. timeout = 1000"
MsgTooLarge == "number too large to fit in target type"

\* LitInt::base10_parse::<u64>(): the digits as a u64, or an error
base10_parse(lit) ==
    IF lit.over THEN AttrErr(MsgTooLarge, "lit") ELSE AttrOk(lit.n)

\* a "skip" arm that leaves a bare `skip` at the default
SkipArm_bare_ignored(a, pair) ==
    IF pair.value # None
    THEN LET expr == pair.value[1]
         IN  IF expr.kind = "LitBool"
             THEN AttrOk([a EXCEPT !.skip = expr.b])
             ELSE AttrErr(MsgSkip, "expr")
    ELSE AttrOk(a)

\* the "skip" arm of the match
SkipArm(a, pair) ==
    IF pair.value # None
    THEN LET expr == pair.value[1]
         IN  IF expr.kind \in {"LitBool", "LitInt"}
             THEN IF expr.kind = "LitBool"
                  THEN AttrOk([a EXCEPT !.skip = expr.b])
                  ELSE AttrErr(MsgSkip, "lit")
             ELSE AttrErr(MsgSkip, "expr")
    ELSE AttrOk([a EXCEPT !.skip = TRUE])

\* a "timeout" arm that accepts a bare `timeout`
TimeoutArm_bare_accepted(a, pair) ==
    IF pair.value # None
    THEN LET expr == pair.value[1]
         IN  IF expr.kind = "LitInt" /\ ~expr.over
             THEN AttrOk([a EXCEPT !.timeout = Some(expr.n)])
             ELSE AttrErr(MsgTimeoutLit, "expr")
    ELSE AttrOk(a)

\* the "timeout" arm of the match
TimeoutArm(a, pair) ==
    IF pair.value # None
    THEN LET expr == pair.value[1]
         IN  IF expr.kind \in {"LitBool", "LitInt"}
             THEN IF expr.kind = "LitInt"
                  THEN LET parsed == base10_parse(expr)
                       IN  IF parsed.ok
                           THEN AttrOk([a EXCEPT !.timeout = Some(parsed.val)])
                           ELSE AttrErr(parsed.msg, parsed.span)
                  ELSE AttrErr(MsgTimeoutLit, "lit")
             ELSE AttrErr(MsgTimeoutLit, "expr")
    ELSE AttrErr(MsgTimeoutMissing, "key")

\* a `_` arm that returns its warning instead of discarding it
OtherArm_rejecting(a, pair) ==
    AttrErr("Unknown pipeline attribute key", "key")

\* the `_` arm: the warning is built and discarded, the pair is kept
OtherArm(a, pair) ==
    AttrOk([a EXCEPT !.others = Append(@, pair)])

\* one iteration of `for pair in pairs`
ParsePair(a, pair) ==
    CASE pair.key = "skip" -> SkipArm(a, pair)
      [] pair.key = "timeout" -> TimeoutArm(a, pair)
      [] OTHER -> OtherArm(a, pair)

\* the loop over the pairs, left to right, returning at the first error
RECURSIVE ParseLoop(_, _)
ParseLoop(a, pairs) ==
    IF pairs = <<>> THEN AttrOk(a)
    ELSE LET r == ParsePair(a, Head(pairs))
         IN  IF r.ok THEN ParseLoop(r.val, Tail(pairs)) ELSE r

\* impl Parse for PipelineAttributes
parse(pairs) == ParseLoop(Default, pairs)

\* the first #[pipeline(...)] attribute is parsed; none gives the defaults
RECURSIVE parse_attributes_from(_)
parse_attributes_from(as) ==
    IF as = <<>> THEN AttrOk(Default)
    ELSE IF Head(as).path = "pipeline" THEN parse(Head(as).pairs)
         ELSE parse_attributes_from(Tail(as))

parse_attributes(inp) == parse_attributes_from(inp.attrs)

(***************************** generated code ******************************)
\* What the macro returns.  For methods: whether the bodies are the skip
\* stubs, the timeout println compiled in (None: no statement), and for each
\* method the step parameters in the order its and_then chain applies them.
NoOutcome ==
    [kind |-> "none", msg |-> "", span |-> "", skip |-> FALSE,
     timeout_code |-> None, process3 |-> <<>>, process4 |-> <<>>]
Error(msg, span) == [NoOutcome EXCEPT !.kind = "error", !.msg = msg, !.span = span]
Panic(msg) == [NoOutcome EXCEPT !.kind = "panic", !.msg = msg]
Methods(skip, timeout_code, p3, p4) ==
    [NoOutcome EXCEPT !.kind = "methods", !.skip = skip,
                      !.timeout_code = timeout_code, !.process3 = p3, !.process4 = p4]

(***************************** pipeline.rs *********************************)
MsgOneField == "Expected a struct with exactly one named field"
MsgNamedFields == "Expected a struct with named fields"
MsgOptionT == "Expected field of type Option<T>"
MsgConcrete == "Expected Option<T> with concrete type"
MsgAngle == "Expected angle-bracketed generic arguments"

ShapeOk == [ok |-> TRUE, msg |-> "", span |-> ""]
ShapeErr(msg, span) == [ok |-> FALSE, msg |-> msg, span |-> span]

\* a field count check that only asks for a first field
single_field_first(inp) ==
    IF inp.data.kind = "Struct" /\ inp.data.fields = "Named"
    THEN IF Len(inp.data.tys) >= 1
         THEN ShapeOk
         ELSE ShapeErr(MsgOneField, "input.ident")
    ELSE ShapeErr(MsgNamedFields, "input.ident")

\* "Validate that the struct has exactly one named field"
single_field(inp) ==
    IF inp.data.kind = "Struct" /\ inp.data.fields = "Named"
    THEN IF Len(inp.data.tys) = 1
         THEN ShapeOk
         ELSE ShapeErr(MsgOneField, "input.ident")
    ELSE ShapeErr(MsgNamedFields, "input.ident")

\* "Extract inner type T from a field with type Option<T>".  A parsed path
\* has at least one segment, so segments.last() is never None.
inner_type(ty) ==
    IF ty.kind = "Path"
    THEN IF ty.ident # "Option"
         THEN ShapeErr(MsgOptionT, "last_segment")
         ELSE IF ty.arguments = "AngleBracketed"
              THEN IF ty.args # <<>> /\ Head(ty.args) = "Type"
                   THEN ShapeOk
                   ELSE ShapeErr(MsgConcrete, "angle_bracketed")
              ELSE ShapeErr(MsgAngle, "last_segment")
    ELSE ShapeErr(MsgOptionT, "field.ty")

\* skip that still emits the chaining bodies
skip_methods_chaining == Methods(FALSE, None, <<1, 2>>, <<1, 2, 3>>)

\* `if attrs.skip`: process3 / process4 whose body is `None`
skip_methods == Methods(TRUE, None, <<>>, <<>>)

\* a generator that never emits the println
timeout_code_dropped(a) == None

\* `timeout_code`: the println of the timeout, or nothing
timeout_code(a) == IF a.timeout # None THEN Some(a.timeout[1]) ELSE None

\* chains that apply the last two parameters in the wrong order
chain_methods_swapped(a) == Methods(FALSE, timeout_code(a), <<2, 1>>, <<1, 3, 2>>)

\* the methods chaining and_then(f1).and_then(f2)[.and_then(f3)]
chain_methods(a) == Methods(FALSE, timeout_code(a), <<1, 2>>, <<1, 2, 3>>)

\* pipeline::pipeline_derive(input, attrs)
pipeline_derive(inp, a) ==
    LET f == single_field(inp)
    IN  IF ~f.ok THEN Error(f.msg, f.span)
        ELSE LET t == inner_type(inp.data.tys[1])
             IN  IF ~t.ok THEN Error(t.msg, t.span)
                 ELSE IF a.skip THEN skip_methods ELSE chain_methods(a)

(***************************** codegen.rs **********************************)
\* codegen::pipeline_derive(input): `?` returns the attribute error
codegen_pipeline_derive(inp) ==
    LET r == parse_attributes(inp)
    IN  IF r.ok THEN pipeline_derive(inp, r.val) ELSE Error(r.msg, r.span)

(***************************** lib.rs **************************************)
MsgLibOneField == "Pipeline derive only supports structs with exactly one named field"
MsgLibStruct == "Pipeline derive only supports structs"
MsgLibPanic == "Expected the field to be of type Option<T>"

\* extract_option_inner: TRUE when it returns Some(inner_ty)
extract_option_inner(ty) ==
    /\ ty.kind = "Path"
    /\ ty.ident = "Option"
    /\ ty.arguments = "AngleBracketed"
    /\ ty.args # <<>>
    /\ Head(ty.args) = "Type"

\* a fold that wraps the chain the wrong way round: step{n-1} first
gen_process_fn_reversed(n) == [i \in 1..(n - 1) |-> n - i]

\* gen_process_fn(n, ..): the chain folds and_then over step1 .. step{n-1}
gen_process_fn(n) == [i \in 1..(n - 1) |-> i]

\* #[proc_macro_derive(Pipeline)] pipeline_derive(input)
lib_pipeline_derive(inp) ==
    IF inp.data.kind = "Struct"
    THEN IF inp.data.fields = "Named" /\ Len(inp.data.tys) = 1
         THEN IF extract_option_inner(inp.data.tys[1])
              THEN Methods(FALSE, None, gen_process_fn(3), gen_process_fn(4))
              ELSE Panic(MsgLibPanic)
         ELSE Error(MsgLibOneField, "input.ident")
    ELSE Error(MsgLibStruct, "input.ident")

(***************************** generated methods ***************************)
\* the step closures a caller passes: main.rs passes add3 and dblIfGt10
StepSet == {"add3", "dblIfGt10", "none", "id"}

ApplyStep(s, x) ==
    CASE s = "add3" -> Some(x + 3)
      [] s = "dblIfGt10" -> IF x > 10 THEN Some(x * 2) ELSE None
      [] s = "id" -> Some(x)
      [] OTHER -> None

FieldVals == {None} \cup {Some(v) : v \in ExampleValue..(ExampleValue + MaxDelta)}

Calls == {[n |-> n, field |-> f, steps |-> s] :
              n \in {3}, f \in FieldVals, s \in [1..2 -> StepSet]}
         \cup {[n |-> n, field |-> f, steps |-> s] :
              n \in {4}, f \in FieldVals, s \in [1..3 -> StepSet]}
NoCall == [n |-> 0, field |-> None, steps |-> <<>>]

\* a chain that carries the old value past a step that returned None
and_then_keeping(opt, f) ==
    IF opt # None
    THEN [called |-> TRUE,
          val |-> IF ApplyStep(f, opt[1]) # None THEN ApplyStep(f, opt[1]) ELSE opt]
    ELSE [called |-> FALSE, val |-> None]

\* Option::and_then(f): f is called only on Some
and_then(opt, f) ==
    IF opt # None
    THEN [called |-> TRUE, val |-> ApplyStep(f, opt[1])]
    ELSE [called |-> FALSE, val |-> None]

\* the println! of timeout_code
Announcement(n) == [text |-> "Pipeline timeout set to {} ms", arg |-> n]

\* the chain of the method called
Chain == IF call.n = 3 THEN outcome.process3 ELSE outcome.process4

(***************************** the state machine ***************************)
NoAttrs == [ok |-> FALSE, val |-> Default, msg |-> "", span |-> ""]

\* lib.rs declares no helper attribute (#[proc_macro_derive(Pipeline)]), so a
\* struct it is applied to carries no #[pipeline(...)]
Inputs(i) ==
    IF i = "lib"
    THEN {DeriveInput(as, d) : as \in {<<>>, <<DocAttr>>}, d \in Datas}
    ELSE {DeriveInput(as, d) : as \in AttrLists, d \in Datas}

Init ==
    /\ impl \in {"lib", "codegen"}
    /\ input \in Inputs(impl)
    /\ attrs = NoAttrs
    /\ outcome = NoOutcome
    /\ pc = "input"
    /\ call = NoCall
    /\ cur = None
    /\ k = 0
    /\ invoked = <<>>
    /\ stdout = <<>>
    /\ ret = None

\* codegen.rs: `let attrs = attributes::parse_attributes(&input)?;`
ParseAttributes ==
    /\ pc = "input"
    /\ impl = "codegen"
    /\ attrs' = parse_attributes(input)
    /\ IF attrs'.ok
       THEN pc' = "parsed" /\ UNCHANGED outcome
       ELSE pc' = "expanded" /\ outcome' = Error(attrs'.msg, attrs'.span)
    /\ UNCHANGED <<impl, input, call, cur, k, invoked, stdout, ret>>

\* codegen.rs: `pipeline::pipeline_derive(input, &attrs)`
PipelineDerive ==
    /\ pc = "parsed"
    /\ outcome' = pipeline_derive(input, attrs.val)
    /\ pc' = "expanded"
    /\ UNCHANGED <<impl, input, attrs, call, cur, k, invoked, stdout, ret>>

\* lib.rs: the proc macro
LibDerive ==
    /\ pc = "input"
    /\ impl = "lib"
    /\ outcome' = lib_pipeline_derive(input)
    /\ pc' = "expanded"
    /\ UNCHANGED <<impl, input, attrs, call, cur, k, invoked, stdout, ret>>

\* the compiled program calls process3 / process4 on an instance; the macro
\* invocation and its locals are gone, the emitted methods remain
Call ==
    /\ pc = "expanded"
    /\ outcome.kind = "methods"
    /\ \E c \in Calls : call' = c
    /\ input' = NoInput
    /\ attrs' = NoAttrs
    /\ pc' = "body"
    /\ UNCHANGED <<impl, outcome, cur, k, invoked, stdout, ret>>

\* the stub body: `None`
SkipBody ==
    /\ pc = "body"
    /\ outcome.skip
    /\ ret' = None
    /\ pc' = "returned"
    /\ UNCHANGED <<impl, input, attrs, outcome, call, cur, k, invoked, stdout>>

\* #timeout_code, when it is not empty
TimeoutCode ==
    /\ pc = "body"
    /\ ~outcome.skip
    /\ outcome.timeout_code # None
    /\ stdout' = Append(stdout, Announcement(outcome.timeout_code[1]))
    /\ pc' = "chain"
    /\ UNCHANGED <<impl, input, attrs, outcome, call, cur, k, invoked, ret>>

\* self.field.as_ref().cloned()
Cloned ==
    /\ \/ pc = "chain"
       \/ pc = "body" /\ ~outcome.skip /\ outcome.timeout_code = None
    /\ cur' = call.field
    /\ IF Chain = <<>>
       THEN pc' = "returned" /\ ret' = call.field /\ k' = k
       ELSE pc' = "and_then" /\ k' = 1 /\ ret' = ret
    /\ UNCHANGED <<impl, input, attrs, outcome, call, invoked, stdout>>

\* the k-th .and_then(step); the value of the last one is returned
AndThen ==
    /\ pc = "and_then"
    /\ LET p == Chain[k]
           r == and_then(cur, call.steps[p])
       IN  /\ cur' = r.val
           /\ invoked' = IF r.called
                         THEN Append(invoked, [step |-> p, arg |-> cur[1], result |-> r.val])
                         ELSE invoked
           /\ IF k = Len(Chain)
              THEN pc' = "returned" /\ ret' = r.val /\ k' = k
              ELSE pc' = "and_then" /\ k' = k + 1 /\ ret' = ret
    /\ UNCHANGED <<impl, input, attrs, outcome, call, stdout>>

Next ==
    \/ ParseAttributes
    \/ PipelineDerive
    \/ LibDerive
    \/ Call
    \/ SkipBody
    \/ TimeoutCode
    \/ Cloned
    \/ AndThen

Spec == Init /\ [][Next]_vars

(***************************** properties **********************************)
\* the attribute set in force while the macro runs: lib.rs reads none
EffectiveAttrs == IF impl = "codegen" THEN attrs.val ELSE Default

\* the macro has returned and its input is still at hand
Expanded == pc = "expanded" /\ (impl = "codegen" => attrs.ok)

\* g(f(v)), h(g(f(v))): the steps applied in parameter order, None absorbing
RECURSIVE Composed(_, _)
Composed(opt, steps) ==
    IF steps = <<>> \/ opt = None THEN IF steps = <<>> THEN opt ELSE None
    ELSE Composed(ApplyStep(Head(steps), opt[1]), Tail(steps))

\* C1: with skip absent or false an accepted struct gets the chaining
\* methods, and a call of process3(f, g) / process4(f, g, h) returns
\* g(f(v)) / h(g(f(v))) when the field is Some(v) and every step returns a
\* value, and None when the field is None or some step returns None.
C1_ChainResult ==
    /\ (Expanded /\ outcome.kind = "methods" /\ ~EffectiveAttrs.skip) => ~outcome.skip
    /\ (pc = "returned" /\ ~outcome.skip) => ret = Composed(call.field, call.steps)

C1_Witness ==
    /\ pc = "returned"
    /\ ~outcome.skip
    /\ call = [n |-> 3, field |-> Some(ExampleValue), steps |-> <<"add3", "dblIfGt10">>]
    /\ Len(invoked) = 2
    /\ ret = None

\* C2: in a non-skip process3 / process4 the steps are invoked left to
\* right in parameter order, each at most once; step 1 only on the field's
\* value, step j+1 only on the value step j returned, and never after the
\* current value became None.
C2_LeftToRight ==
    /\ Len(invoked) <= Len(call.steps)
    /\ \A j \in 1..Len(invoked) :
          /\ invoked[j].step = j
          /\ invoked[j].result = ApplyStep(call.steps[j], invoked[j].arg)
          /\ IF j = 1
             THEN call.field = Some(invoked[j].arg)
             ELSE invoked[j - 1].result = Some(invoked[j].arg)
    /\ (pc = "and_then" /\ cur = None) =>
          \/ invoked = <<>> /\ call.field = None
          \/ invoked # <<>> /\ invoked[Len(invoked)].result = None

C2_Witness ==
    /\ pc = "returned"
    /\ ~outcome.skip
    /\ call.n = 4
    /\ call.field # None
    /\ call.steps[3] = "id"
    /\ Len(invoked) = 2
    /\ invoked[2].result = None

\* C3: when the parsed attribute set has skip = true the emitted methods are
\* the stubs; a stub returns None for every field value and every choice of
\* steps and invokes none of them.
C3_SkipStub ==
    /\ (Expanded /\ outcome.kind = "methods" /\ EffectiveAttrs.skip) => outcome.skip
    /\ outcome.skip => invoked = <<>> /\ ret = None /\ pc # "and_then"

C3_Witness ==
    /\ pc = "returned"
    /\ outcome.skip
    /\ call.n = 4
    /\ call.field = Some(ExampleValue)
    /\ call.steps = <<"id", "id", "id">>
    /\ ret = None

\* the struct has named fields, and how many
NamedFields == input.data.kind = "Struct" /\ input.data.fields = "Named"

OneFieldMsgs == {MsgOneField, MsgLibOneField}

\* C4 as stated: every struct with two or more named fields, whatever the
\* attributes, fails with the "exactly one named field" diagnostic anchored
\* to the struct name.
C4_AlwaysOneFieldDiagnostic ==
    (pc = "expanded" /\ NamedFields /\ Len(input.data.tys) >= 2) =>
        /\ outcome.kind = "error"
        /\ outcome.msg \in OneFieldMsgs
        /\ outcome.span = "input.ident"

\* C4 amended: a struct with two or more named fields never gets methods;
\* the diagnostic is the "exactly one named field" one anchored to the
\* struct name when the attribute list parses or is absent, and the
\* attribute parser's diagnostic when the attribute list fails to parse.
C4_OneFieldOrAttributeDiagnostic ==
    (pc = "expanded" /\ NamedFields /\ Len(input.data.tys) >= 2) =>
        /\ outcome.kind = "error"
        /\ IF impl = "codegen" /\ ~attrs.ok
           THEN outcome.msg = attrs.msg /\ outcome.span = attrs.span
                /\ outcome.msg \notin OneFieldMsgs
           ELSE outcome.msg \in OneFieldMsgs /\ outcome.span = "input.ident"

C4_Witness ==
    /\ pc = "expanded"
    /\ impl = "codegen"
    /\ input.data = Data("Struct", "Named", <<OptionT, OptionT>>)
    /\ attrs.ok
    /\ attrs.val.skip
    /\ outcome = Error(MsgOneField, "input.ident")

\* the single named field is not the optional-value wrapper
NotOptionField ==
    /\ NamedFields
    /\ Len(input.data.tys) = 1
    /\ input.data.tys[1].kind = "Path" => input.data.tys[1].ident # "Option"

\* C5: a struct with exactly one named field that is not the optional-value
\* wrapper ends (its attribute list, if any, parsing) in a diagnostic value
\* attributed to the field: never methods, never another kind of outcome.
C5_NonOptionIsDiagnostic ==
    (Expanded /\ NotOptionField) =>
        /\ outcome.kind = "error"
        /\ outcome.msg = MsgOptionT
        /\ outcome.span \in {"last_segment", "field.ty"}

\* C6: with timeout = N and no skip the emitted methods announce N once,
\* before cloning the field and before any step, whatever the field and
\* however the chain ends; with timeout omitted nothing is ever announced.
C6_TimeoutAnnouncement ==
    /\ (Expanded /\ outcome.kind = "methods" /\ ~EffectiveAttrs.skip) =>
          outcome.timeout_code = EffectiveAttrs.timeout
    /\ (~outcome.skip /\ outcome.timeout_code # None) =>
          /\ pc \in {"chain", "and_then", "returned"} =>
                stdout = <<Announcement(outcome.timeout_code[1])>>
          /\ pc = "body" => stdout = <<>> /\ invoked = <<>>
    /\ outcome.timeout_code = None => stdout = <<>>

C6_Witness ==
    /\ pc = "returned"
    /\ outcome.timeout_code = Some(ExampleTimeout)
    /\ call.n = 4
    /\ call.field = None
    /\ invoked = <<>>
    /\ stdout = <<Announcement(ExampleTimeout)>>

\* the keys the parser recognizes
Recognized(pair) == pair.key \in {"skip", "timeout"}
Unrecognized(pair) == ~Recognized(pair)

\* the pairs of the first #[pipeline(...)] attribute, <<>> when there is none
RECURSIVE FirstPipelinePairs(_)
FirstPipelinePairs(as) ==
    IF as = <<>> THEN <<>>
    ELSE IF Head(as).path = "pipeline" THEN Head(as).pairs
         ELSE FirstPipelinePairs(Tail(as))

HasPipeline(as) == \E i \in 1..Len(as) : as[i].path = "pipeline"

\* the input with every unrecognized key removed from its attribute lists
WithoutUnrecognized(inp) ==
    [inp EXCEPT !.attrs =
        [i \in 1..Len(inp.attrs) |->
            [inp.attrs[i] EXCEPT !.pairs = SelectSeq(@, Recognized)]]]

\* C7: unrecognized keys never turn a parse or a generation that succeeds
\* without them into a failure and never change what is generated: skip,
\* timeout and the whole outcome are those of the list without the keys, and
\* the unrecognized pairs are kept in `others` in source order.
C7_UnknownKeysInert ==
    (pc = "expanded" /\ impl = "codegen"
       /\ parse_attributes(WithoutUnrecognized(input)).ok) =>
        LET bare == parse_attributes(WithoutUnrecognized(input)).val
        IN  /\ attrs.ok
            /\ attrs.val.skip = bare.skip
            /\ attrs.val.timeout = bare.timeout
            /\ attrs.val.others =
                  SelectSeq(FirstPipelinePairs(input.attrs), Unrecognized)
            /\ outcome = codegen_pipeline_derive(WithoutUnrecognized(input))

C7_Witness ==
    /\ pc = "expanded"
    /\ impl = "codegen"
    /\ input.attrs = <<Attribute("pipeline",
                          <<Pair("foo", Some(LitInt(1, FALSE))),
                            Pair("timeout", Some(LitInt(ExampleTimeout, FALSE)))>>)>>
    /\ attrs.val.others = <<Pair("foo", Some(LitInt(1, FALSE)))>>
    /\ outcome.kind = "methods"
    /\ outcome.timeout_code = Some(ExampleTimeout)

\* what each recognized pair is, read off its syntax
IsBool(v) == v # None /\ v[1].kind = "LitBool"
IsU64(v) == v # None /\ v[1].kind = "LitInt" /\ ~v[1].over
BadSkip(pair) == pair.key = "skip" /\ pair.value # None /\ ~IsBool(pair.value)
BareTimeout(pair) == pair.key = "timeout" /\ pair.value = None
BadTimeout(pair) == pair.key = "timeout" /\ pair.value # None /\ ~IsU64(pair.value)
Bad(pair) == BadSkip(pair) \/ BareTimeout(pair) \/ BadTimeout(pair)

\* the position of the first pair the parser rejects, 0 when there is none
FirstBad(pairs) ==
    IF \E i \in 1..Len(pairs) : Bad(pairs[i])
    THEN CHOOSE i \in 1..Len(pairs) :
            Bad(pairs[i]) /\ \A j \in 1..(i - 1) : ~Bad(pairs[j])
    ELSE 0

\* the last pair with the key, <<>> when there is none
LastOf(pairs, key) ==
    LET at == {i \in 1..Len(pairs) : pairs[i].key = key}
    IN  IF at = {} THEN <<>>
        ELSE <<pairs[CHOOSE i \in at : \A j \in at : j <= i]>>

Parsed == impl = "codegen" /\ pc \in {"parsed", "expanded"}

\* C8: a bare `skip` sets skip to true and `skip = <bool literal>` to the
\* literal's value (the last skip pair deciding); the parse fails with the
\* "expected boolean literal" diagnostic when the first pair it rejects is
\* `skip = <anything else>`; without a #[pipeline(...)] attribute the
\* result is the defaults.
C8_SkipKey ==
    Parsed =>
        LET pairs == FirstPipelinePairs(input.attrs)
            bad == FirstBad(pairs)
            last == LastOf(pairs, "skip")
        IN  /\ ~HasPipeline(input.attrs) => attrs = AttrOk(Default)
            /\ attrs.ok <=> bad = 0
            /\ (attrs.ok /\ last = <<>>) => attrs.val.skip = FALSE
            /\ (attrs.ok /\ last # <<>>) =>
                  attrs.val.skip =
                      (last[1].value = None \/ (IsBool(last[1].value) /\ last[1].value[1].b))
            /\ (bad # 0 /\ BadSkip(pairs[IF bad = 0 THEN 1 ELSE bad])) =>
                  ~attrs.ok /\ attrs.msg = MsgSkip

C8_Witness ==
    /\ pc = "parsed"
    /\ input.attrs = <<Attribute("pipeline",
                          <<Pair("skip", Some(LitBool(FALSE))), Pair("skip", None)>>)>>
    /\ attrs.ok
    /\ attrs.val.skip

ShapeAtoE ==
    /\ input.data.kind = "Struct"
    /\ input.data.fields = "Named"
    /\ Len(input.data.tys) = 1
    /\ input.data.tys[1].kind = "Path"
    /\ input.data.tys[1].ident = "Option"
    /\ input.data.tys[1].arguments = "AngleBracketed"
    /\ input.data.tys[1].args = <<"Type">>

\* C10: methods are generated only for a shape meeting (a)-(e); a wrapper
\* with zero, with two or more, or with a non-type first generic argument
\* gets none.
C10_AcceptsOnlyAtoE ==
    (pc = "expanded" /\ outcome.kind = "methods") => ShapeAtoE

\* the other implementation's answer for the same input, default attributes
OtherOutcome ==
    IF impl = "lib" THEN pipeline_derive(input, Default) ELSE lib_pipeline_derive(input)

\* the chain the other implementation emits for the method called
OtherChain ==
    IF impl = "lib"
    THEN IF call.n = 3 THEN chain_methods(Default).process3
                       ELSE chain_methods(Default).process4
    ELSE gen_process_fn(call.n)

\* a chain run to its end on a field value: the result and the steps invoked
RECURSIVE RunChain(_, _, _, _)
RunChain(chain, opt, steps, log) ==
    IF chain = <<>> THEN [ret |-> opt, invoked |-> log]
    ELSE IF opt = None THEN RunChain(Tail(chain), None, steps, log)
         ELSE LET r == ApplyStep(steps[Head(chain)], opt[1])
              IN  RunChain(Tail(chain), r, steps,
                           Append(log, [step |-> Head(chain), arg |-> opt[1], result |-> r]))

\* C11: with no attributes given (the attribute set being the default) the
\* macro of lib.rs and the generator of pipeline.rs accept the same struct
\* shapes and emit the same methods, and a call of an emitted process3 /
\* process4 returns what the other implementation's chain returns and
\* invokes the same steps in the same order.
C11_ImplementationsAgree ==
    /\ (pc = "expanded" /\ (impl = "codegen" => attrs.ok /\ attrs.val = Default)) =>
          /\ (outcome.kind = "methods") <=> (OtherOutcome.kind = "methods")
          /\ outcome.kind = "methods" => outcome = OtherOutcome
    /\ (pc = "returned" /\ ~outcome.skip /\ outcome.timeout_code = None) =>
          LET other == RunChain(OtherChain, call.field, call.steps, <<>>)
          IN  ret = other.ret /\ invoked = other.invoked /\ stdout = <<>>

C11_Witness ==
    /\ pc = "returned"
    /\ impl = "lib"
    /\ call.n = 4
    /\ call.field = Some(ExampleValue)
    /\ call.steps = <<"add3", "dblIfGt10", "add3">>
    /\ Len(invoked) = 2
    /\ ret = None

====
